---------------------------- MODULE Spec2Model ----------------------------
(***************************************************************************)
(* custom_build.py is a build profile: a Python script made only of        *)
(* comments, blank lines and statements of the form NAME="string".  The    *)
(* build tool that consumes it is not part of the repository; what the     *)
(* repository fixes is the text of the profile and, through the language   *)
(* the profile is written in, what reading that text yields: a mapping     *)
(* from option names to string values.                                     *)
(*                                                                         *)
(* The model keeps the text character by character (a line is a tuple of   *)
(* one-character strings), reads it the way the statements of the file are *)
(* read, and lets the text vary over edits of the shipped file: its lines  *)
(* in another order, comments and blank lines added or removed.            *)
(***************************************************************************)
EXTENDS Naturals, Sequences, FiniteSets

(***************************************************************************)
(* The text of src/custom_build.py, one definition per line.               *)
(***************************************************************************)
\*  1: # custom_build.py - Optimized build profile for 2D games
Line01 ==
    << "#", " ", "c", "u", "s", "t", "o", "m", "_", "b", "u", "i", "l", "d", ".", "p",
       "y", " ", "-", " ", "O", "p", "t", "i", "m", "i", "z", "e", "d", " ", "b", "u",
       "i", "l", "d", " ", "p", "r", "o", "f", "i", "l", "e", " ", "f", "o", "r", " ",
       "2", "D", " ", "g", "a", "m", "e", "s" >>

\*  2: target="template_release"
Line02 ==
    << "t", "a", "r", "g", "e", "t", "=", "\"", "t", "e", "m", "p", "l", "a", "t", "e",
       "_", "r", "e", "l", "e", "a", "s", "e", "\"" >>

\*  3: debug_symbols="no"
Line03 ==
    << "d", "e", "b", "u", "g", "_", "s", "y", "m", "b", "o", "l", "s", "=", "\"", "n",
       "o", "\"" >>

\*  4: optimize="size_extra"  # Godot 4.5+ only, otherwise use "size"
Line04 ==
    << "o", "p", "t", "i", "m", "i", "z", "e", "=", "\"", "s", "i", "z", "e", "_", "e",
       "x", "t", "r", "a", "\"", " ", " ", "#", " ", "G", "o", "d", "o", "t", " ", "4",
       ".", "5", "+", " ", "o", "n", "l", "y", ",", " ", "o", "t", "h", "e", "r", "w",
       "i", "s", "e", " ", "u", "s", "e", " ", "\"", "s", "i", "z", "e", "\"" >>

\*  5: lto="full"             # Full link-time optimization (slower build, smaller size)
Line05 ==
    << "l", "t", "o", "=", "\"", "f", "u", "l", "l", "\"", " ", " ", " ", " ", " ", " ",
       " ", " ", " ", " ", " ", " ", " ", "#", " ", "F", "u", "l", "l", " ", "l", "i",
       "n", "k", "-", "t", "i", "m", "e", " ", "o", "p", "t", "i", "m", "i", "z", "a",
       "t", "i", "o", "n", " ", "(", "s", "l", "o", "w", "e", "r", " ", "b", "u", "i",
       "l", "d", ",", " ", "s", "m", "a", "l", "l", "e", "r", " ", "s", "i", "z", "e",
       ")" >>

\*  6: (empty line)
Line06 == << >>

\*  7: # Disable 3D if you're making a 2D game
Line07 ==
    << "#", " ", "D", "i", "s", "a", "b", "l", "e", " ", "3", "D", " ", "i", "f", " ",
       "y", "o", "u", "'", "r", "e", " ", "m", "a", "k", "i", "n", "g", " ", "a", " ",
       "2", "D", " ", "g", "a", "m", "e" >>

\*  8: disable_3d="yes"
Line08 ==
    << "d", "i", "s", "a", "b", "l", "e", "_", "3", "d", "=", "\"", "y", "e", "s", "\"" >>

\*  9: disable_advanced_gui="yes"
Line09 ==
    << "d", "i", "s", "a", "b", "l", "e", "_", "a", "d", "v", "a", "n", "c", "e", "d",
       "_", "g", "u", "i", "=", "\"", "y", "e", "s", "\"" >>

\* 10: (empty line)
Line10 == << >>

\* 11: # Disable unnecessary features
Line11 ==
    << "#", " ", "D", "i", "s", "a", "b", "l", "e", " ", "u", "n", "n", "e", "c", "e",
       "s", "s", "a", "r", "y", " ", "f", "e", "a", "t", "u", "r", "e", "s" >>

\* 12: deprecated="no"
Line12 ==
    << "d", "e", "p", "r", "e", "c", "a", "t", "e", "d", "=", "\"", "n", "o", "\"" >>

\* 13: vulkan="no"       # Using Compatibility renderer (OpenGL)
Line13 ==
    << "v", "u", "l", "k", "a", "n", "=", "\"", "n", "o", "\"", " ", " ", " ", " ", " ",
       " ", " ", "#", " ", "U", "s", "i", "n", "g", " ", "C", "o", "m", "p", "a", "t",
       "i", "b", "i", "l", "i", "t", "y", " ", "r", "e", "n", "d", "e", "r", "e", "r",
       " ", "(", "O", "p", "e", "n", "G", "L", ")" >>

\* 14: use_volk="no"
Line14 ==
    << "u", "s", "e", "_", "v", "o", "l", "k", "=", "\"", "n", "o", "\"" >>

\* 15: openxr="no"       # No VR/AR
Line15 ==
    << "o", "p", "e", "n", "x", "r", "=", "\"", "n", "o", "\"", " ", " ", " ", " ", " ",
       " ", " ", "#", " ", "N", "o", " ", "V", "R", "/", "A", "R" >>

\* 16: minizip="no"      # No ZIP archive support
Line16 ==
    << "m", "i", "n", "i", "z", "i", "p", "=", "\"", "n", "o", "\"", " ", " ", " ", " ",
       " ", " ", "#", " ", "N", "o", " ", "Z", "I", "P", " ", "a", "r", "c", "h", "i",
       "v", "e", " ", "s", "u", "p", "p", "o", "r", "t" >>

\* 17: graphite="no"     # No SIL Graphite fonts
Line17 ==
    << "g", "r", "a", "p", "h", "i", "t", "e", "=", "\"", "n", "o", "\"", " ", " ", " ",
       " ", " ", "#", " ", "N", "o", " ", "S", "I", "L", " ", "G", "r", "a", "p", "h",
       "i", "t", "e", " ", "f", "o", "n", "t", "s" >>

\* 18: (empty line)
Line18 == << >>

\* 19: # Disable navigation if not needed
Line19 ==
    << "#", " ", "D", "i", "s", "a", "b", "l", "e", " ", "n", "a", "v", "i", "g", "a",
       "t", "i", "o", "n", " ", "i", "f", " ", "n", "o", "t", " ", "n", "e", "e", "d",
       "e", "d" >>

\* 20: disable_navigation_2d="yes"
Line20 ==
    << "d", "i", "s", "a", "b", "l", "e", "_", "n", "a", "v", "i", "g", "a", "t", "i",
       "o", "n", "_", "2", "d", "=", "\"", "y", "e", "s", "\"" >>

\* 21: disable_navigation_3d="yes"
Line21 ==
    << "d", "i", "s", "a", "b", "l", "e", "_", "n", "a", "v", "i", "g", "a", "t", "i",
       "o", "n", "_", "3", "d", "=", "\"", "y", "e", "s", "\"" >>

\* 22: disable_xr="yes"
Line22 ==
    << "d", "i", "s", "a", "b", "l", "e", "_", "x", "r", "=", "\"", "y", "e", "s", "\"" >>

\* 23: (empty line)
Line23 == << >>

\* 24: # Module configuration - disable all, enable only what you need
Line24 ==
    << "#", " ", "M", "o", "d", "u", "l", "e", " ", "c", "o", "n", "f", "i", "g", "u",
       "r", "a", "t", "i", "o", "n", " ", "-", " ", "d", "i", "s", "a", "b", "l", "e",
       " ", "a", "l", "l", ",", " ", "e", "n", "a", "b", "l", "e", " ", "o", "n", "l",
       "y", " ", "w", "h", "a", "t", " ", "y", "o", "u", " ", "n", "e", "e", "d" >>

\* 25: modules_enabled_by_default="no"
Line25 ==
    << "m", "o", "d", "u", "l", "e", "s", "_", "e", "n", "a", "b", "l", "e", "d", "_",
       "b", "y", "_", "d", "e", "f", "a", "u", "l", "t", "=", "\"", "n", "o", "\"" >>

\* 26: module_gdscript_enabled="yes"
Line26 ==
    << "m", "o", "d", "u", "l", "e", "_", "g", "d", "s", "c", "r", "i", "p", "t", "_",
       "e", "n", "a", "b", "l", "e", "d", "=", "\"", "y", "e", "s", "\"" >>

\* 27: module_text_server_fb_enabled="yes"  # Fallback text server (no RTL support)
Line27 ==
    << "m", "o", "d", "u", "l", "e", "_", "t", "e", "x", "t", "_", "s", "e", "r", "v",
       "e", "r", "_", "f", "b", "_", "e", "n", "a", "b", "l", "e", "d", "=", "\"", "y",
       "e", "s", "\"", " ", " ", "#", " ", "F", "a", "l", "l", "b", "a", "c", "k", " ",
       "t", "e", "x", "t", " ", "s", "e", "r", "v", "e", "r", " ", "(", "n", "o", " ",
       "R", "T", "L", " ", "s", "u", "p", "p", "o", "r", "t", ")" >>

\* 28: module_freetype_enabled="yes"
Line28 ==
    << "m", "o", "d", "u", "l", "e", "_", "f", "r", "e", "e", "t", "y", "p", "e", "_",
       "e", "n", "a", "b", "l", "e", "d", "=", "\"", "y", "e", "s", "\"" >>

\* 29: module_svg_enabled="yes"
Line29 ==
    << "m", "o", "d", "u", "l", "e", "_", "s", "v", "g", "_", "e", "n", "a", "b", "l",
       "e", "d", "=", "\"", "y", "e", "s", "\"" >>

\* Line 29 copied with the value of line 3 and its name left as it was:
\* module_svg_enabled="no".
Line30Repeated == SubSeq(Line29, 1, 18) \o SubSeq(Line03, 14, 18)

\* 30: module_webp_enabled="no"
Line30 ==
    << "m", "o", "d", "u", "l", "e", "_", "w", "e", "b", "p", "_", "e", "n", "a", "b",
       "l", "e", "d", "=", "\"", "n", "o", "\"" >>

\* 31: module_godot_physics_2d_enabled="no"  # Enable if you use 2D physics
Line31 ==
    << "m", "o", "d", "u", "l", "e", "_", "g", "o", "d", "o", "t", "_", "p", "h", "y",
       "s", "i", "c", "s", "_", "2", "d", "_", "e", "n", "a", "b", "l", "e", "d", "=",
       "\"", "n", "o", "\"", " ", " ", "#", " ", "E", "n", "a", "b", "l", "e", " ", "i",
       "f", " ", "y", "o", "u", " ", "u", "s", "e", " ", "2", "D", " ", "p", "h", "y",
       "s", "i", "c", "s" >>

custom_build ==
    << Line01, Line02, Line03, Line04, Line05, Line06, Line07, Line08,
       Line09, Line10, Line11, Line12, Line13, Line14, Line15, Line16,
       Line17, Line18, Line19, Line20, Line21, Line22, Line23, Line24,
       Line25, Line26, Line27, Line28, Line29, Line30, Line31 >>

(***************************************************************************)
(* Lexical structure of the lines of the file.                             *)
(***************************************************************************)
Quote == "\""

Hash == "#"

Equals == "="

Space == {" ", "\t"}

Letter ==
    { "a", "b", "c", "d", "e", "f", "g", "h", "i", "j", "k", "l", "m",
      "n", "o", "p", "q", "r", "s", "t", "u", "v", "w", "x", "y", "z",
      "A", "B", "C", "D", "E", "F", "G", "H", "I", "J", "K", "L", "M",
      "N", "O", "P", "Q", "R", "S", "T", "U", "V", "W", "X", "Y", "Z", "_" }

Digit == { "0", "1", "2", "3", "4", "5", "6", "7", "8", "9" }

\* Column of the "#" that starts the comment of a line: the first "#" that
\* is not inside a quoted string (line 4's comment itself holds quotes);
\* Len(line) + 1 when the line has no comment.
RECURSIVE ScanComment(_, _, _)
ScanComment(line, i, inString) ==
    IF i > Len(line) THEN i
    ELSE IF line[i] = Quote THEN ScanComment(line, i + 1, ~inString)
    ELSE IF line[i] = Hash /\ ~inString THEN i
    ELSE ScanComment(line, i + 1, inString)

\* A reader that knows only whole-line comments.
CommentStartColumnOne(line) ==
    IF Len(line) > 0 /\ line[1] = Hash THEN 1 ELSE Len(line) + 1

CommentStart(line) == ScanComment(line, 1, FALSE)

\* Length of s without its trailing blanks.
RECURSIVE TrimmedLen(_, _)
TrimmedLen(s, n) ==
    IF n > 0 /\ s[n] \in Space THEN TrimmedLen(s, n - 1) ELSE n

\* The statement of a line: the line without its comment and without the
\* blanks between the statement and the comment.
Code(line) ==
    SubSeq(line, 1, TrimmedLen(line, CommentStart(line) - 1))

\* An option name: a letter or "_", then letters, digits and "_".
IsName(s) ==
    /\ Len(s) > 0
    /\ s[1] \in Letter
    /\ \A i \in 1..Len(s) : s[i] \in Letter \cup Digit

\* A double-quoted string with no quote and no escape inside, the only
\* form of value the file uses.
IsStringLiteral(s) ==
    /\ Len(s) >= 2
    /\ s[1] = Quote
    /\ s[Len(s)] = Quote
    /\ \A i \in 2..(Len(s) - 1) : s[i] \notin {Quote, "\\"}

\* Column of the first "=" of a statement, 0 when it has none.
RECURSIVE ScanEquals(_, _)
ScanEquals(code, i) ==
    IF i > Len(code) THEN 0
    ELSE IF code[i] = Equals THEN i
    ELSE ScanEquals(code, i + 1)

EqualsAt(code) == ScanEquals(code, 1)

\* NAME="string", written as everywhere in the file: no indentation and
\* nothing around the "=".
IsAssignment(code) ==
    /\ EqualsAt(code) > 0
    /\ IsName(SubSeq(code, 1, EqualsAt(code) - 1))
    /\ IsStringLiteral(SubSeq(code, EqualsAt(code) + 1, Len(code)))

\* A line as the reader sees it: what it is and, for an assignment, the
\* name it binds and the string it binds it to.
Lex(line) ==
    LET code == Code(line)
        eq   == EqualsAt(code)
    IN  IF code = << >>
          THEN [kind   |-> IF CommentStart(line) <= Len(line)
                             THEN "comment" ELSE "blank",
                target |-> << >>,
                value  |-> << >>]
        ELSE IF IsAssignment(code)
          THEN [kind   |-> "assignment",
                target |-> SubSeq(code, 1, eq - 1),
                value  |-> SubSeq(code, eq + 2, Len(code) - 1)]
        ELSE [kind |-> "malformed", target |-> << >>, value |-> << >>]

Kind(line) == Lex(line).kind

(***************************************************************************)
(* Reading the profile.  The whole text is compiled first, so a malformed  *)
(* line anywhere fails the reading before any name is bound; then the      *)
(* statements run top to bottom, each assignment binding its name and      *)
(* replacing an earlier binding of the same name.  Nothing observes the    *)
(* script between two of its statements, so running it is one step.        *)
(***************************************************************************)
VARIABLES
    original,   \* the text before it was edited
    source,     \* the text being read
    phase,      \* "start", "compiled" or "done"
    code,       \* the statements the text compiled to
    ns,         \* the names bound: name |-> value
    err         \* "none" or "SyntaxError"

vars == << original, source, phase, code, ns, err >>

EmptyNamespace == [n \in {} |-> << >>]

\* The statements of a text, line by line.
RECURSIVE ParseFrom(_, _)
ParseFrom(text, i) ==
    IF i > Len(text) THEN << >>
    ELSE << Lex(text[i]) >> \o ParseFrom(text, i + 1)

Parse(text) == ParseFrom(text, 1)

Malformed(program) ==
    \E i \in 1..Len(program) : program[i].kind = "malformed"

Bind(names, stmt) ==
    [n \in DOMAIN names \cup {stmt.target} |->
        IF n = stmt.target THEN stmt.value ELSE names[n]]

RECURSIVE Run(_, _, _)
Run(names, program, i) ==
    IF i > Len(program) THEN names
    ELSE IF program[i].kind = "assignment"
      THEN Run(Bind(names, program[i]), program, i + 1)
    ELSE Run(names, program, i + 1)

\* The outcome of reading a text in one go.
Load(text) ==
    LET program == Parse(text)
    IN  IF Malformed(program)
          THEN [err |-> "SyntaxError", ns |-> EmptyNamespace]
          ELSE [err |-> "none", ns |-> Run(EmptyNamespace, program, 1)]

Compile ==
    /\ phase = "start"
    /\ code' = Parse(source)
    /\ IF Malformed(code')
         THEN phase' = "done" /\ err' = "SyntaxError"
         ELSE phase' = "compiled" /\ err' = err
    /\ UNCHANGED << original, source, ns >>

Execute ==
    /\ phase = "compiled"
    /\ ns' = Run(ns, code, 1)
    /\ phase' = "done"
    /\ UNCHANGED << original, source, code, err >>

Next == Compile \/ Execute

Unread ==
    /\ phase = "start"
    /\ code = << >>
    /\ ns = EmptyNamespace
    /\ err = "none"

(***************************************************************************)
(* The texts read.  Spec reads the shipped file with its assignment lines  *)
(* reordered by up to MaxSwaps exchanges of two of them.                   *)
(***************************************************************************)
MaxSwaps == 1

AssignmentLines(text) ==
    { i \in 1..Len(text) : Kind(text[i]) = "assignment" }

Swap(text, i, j) ==
    [k \in 1..Len(text) |->
        IF k = i THEN text[j] ELSE IF k = j THEN text[i] ELSE text[k]]

RECURSIVE Reordered(_, _)
Reordered(text, n) ==
    IF n = 0 THEN {text}
    ELSE LET R == Reordered(text, n - 1)
         IN  R \cup { Swap(t, i, j) : t \in R,
                                      i \in AssignmentLines(text),
                                      j \in AssignmentLines(text) }

Init ==
    /\ original = custom_build
    /\ source \in Reordered(custom_build, MaxSwaps)
    /\ Unread

Spec == Init /\ [][Next]_vars

(***************************************************************************)
(* SpecComments reads the shipped file and short texts made of its         *)
(* statements, each with up to MaxEdits comment edits: a blank or          *)
(* comment-only line inserted or deleted, a comment appended to a          *)
(* statement.                                                              *)
(***************************************************************************)
MaxLines == 2

MaxEdits == 1

\* Line 5 without its comment, lto="full", and cut short after the "=".
Bare05 == SubSeq(Line05, 1, 10)

Cut05 == SubSeq(Line05, 1, 4)

Statements == { Line02, Line03, Bare05, Cut05 }

RECURSIVE TextsOver(_, _)
TextsOver(pool, n) ==
    IF n = 0 THEN { << >> }
    ELSE LET T == TextsOver(pool, n - 1)
         IN  T \cup { Append(t, l) : t \in T, l \in pool }

Originals == {custom_build} \cup TextsOver(Statements, MaxLines)

Indent == << " ", " " >>

\* Lines that hold no statement: empty, blanks only, a comment, an
\* indented comment.
IgnoredLines == { << >>, Indent, Line07, Indent \o Line07 }

\* The comment of line 4, with and without the two blanks before it.
TrailingComments ==
    { SubSeq(Line04, 22, Len(Line04)), SubSeq(Line04, 24, Len(Line04)) }

\* A line with nothing before its "#" or its end but blanks.
OnlyComment(line) ==
    \E k \in 0..Len(line) :
        /\ \A i \in 1..k : line[i] \in {" ", "\t"}
        /\ k = Len(line) \/ line[k + 1] = "#"

InsertLine(text, p, line) ==
    SubSeq(text, 1, p - 1) \o << line >> \o SubSeq(text, p, Len(text))

DeleteLine(text, i) ==
    SubSeq(text, 1, i - 1) \o SubSeq(text, i + 1, Len(text))

AppendComment(text, i, comment) ==
    [text EXCEPT ![i] = @ \o comment]

CommentEdits(t) ==
    { InsertLine(t, p, l) : p \in 1..(Len(t) + 1), l \in IgnoredLines }
    \cup { DeleteLine(t, i) : i \in { k \in 1..Len(t) : OnlyComment(t[k]) } }
    \cup { AppendComment(t, i, c) :
              i \in { k \in 1..Len(t) : ~OnlyComment(t[k]) },
              c \in TrailingComments }

RECURSIVE Edited(_, _)
Edited(text, n) ==
    IF n = 0 THEN {text}
    ELSE LET E == Edited(text, n - 1)
         IN  E \cup UNION { CommentEdits(t) : t \in E }

InitComments ==
    /\ original \in Originals
    /\ source \in Edited(original, MaxEdits)
    /\ Unread

SpecComments == InitComments /\ [][Next]_vars

(***************************************************************************)
(* Properties.                                                             *)
(***************************************************************************)
Outcome == [err |-> err, ns |-> ns]

Assignments(program) ==
    { i \in 1..Len(program) : program[i].kind = "assignment" }

C10_ShippedProfile ==
    /\ (source = custom_build /\ phase # "start") =>
          /\ \A i \in 1..Len(code) :
                code[i].kind \in {"blank", "comment", "assignment"}
          /\ Cardinality(Assignments(code)) = 22
          /\ \A i, j \in Assignments(code) :
                i # j => code[i].target # code[j].target
    /\ err = "none"
    /\ phase = "done" =>
          /\ Cardinality(DOMAIN ns) = 22
          /\ Outcome = Load(custom_build)

\* The shipped file was read to the end with two of its assignment lines
\* exchanged.
C10_Witness ==
    /\ phase = "done"
    /\ Len(source) = Len(custom_build)
    /\ \E i \in 1..Len(source) :
          /\ source[i] # custom_build[i]
          /\ code[i].kind = "assignment"
    /\ err = "none"
=============================================================================
